---- MODULE Spec2Model ----
(***************************************************************************)
(* The chunked-transfer session manager of Neurolink                        *)
(* (src/src/rust/transfer/mod.rs, TransferManager) and the HTTP init        *)
(* handler in front of it (src/src/rust/api/routes.rs).                     *)
(*                                                                          *)
(* Every manager method except init_transfer takes the registry lock in its *)
(* first statement and holds it until it returns, so each call is one       *)
(* action.  init_transfer reads the clock and creates the scratch directory *)
(* before it locks; what it computes there depends on the clock alone, and  *)
(* the clock of the model may stand still between any two calls, so the     *)
(* call is one action as well.                                              *)
(***************************************************************************)
EXTENDS Integers, Sequences, FiniteSets, TLC

(***************************************************************************)
(* Bounds of the model.                                                     *)
(***************************************************************************)
MaxIndex == 2       \* receive_chunk is called with chunk_index in 0..MaxIndex
MaxUploads == 1     \* complete_transfer succeeds at most this many times
MaxIoFaults == 1    \* the file system fails at most this many times
WordBits == 4       \* scaled-down width of u64 and usize
MaxHistory == 2     \* SpecBatches: complete_transfer succeeds at most so often
Kilo == 1           \* scaled-down 1024: bytes in one unit of chunk_size_kb

\* the milliseconds the clock runs over
Instants == {0, 1}
\* the chunk bodies that are submitted
ChunkData == {<<0>>, <<1, 1>>}

Modulus == 2 ^ WordBits

VARIABLES
    now,                \* Utc::now().timestamp_millis()
    transfers,          \* TransferManager.transfers: id -> Transfer
    completed_uploads,  \* TransferManager.completed_uploads: Vec<CompletedUpload>
    storage,            \* the files under storage_path: filename -> bytes
    io_faults,          \* file-system failures so far
    last,               \* the latest call and what it returned
    retired,            \* history: the ids that were completed or cancelled
    attempted,          \* history: id -> the file a complete_transfer that
                        \* failed on I/O was writing; forgotten when the id
                        \* is sent a chunk, cancelled or completed
    lock,               \* the caller that holds the Mutex of `transfers`
    history_lock,       \* the caller that holds the Mutex of `completed_uploads`
    calls,              \* caller -> the call it is in, and where
    sender              \* SpecSender: the locals of send_files of the CLI

vars == <<now, transfers, completed_uploads, storage, io_faults, last,
          retired, attempted, lock, history_lock, calls, sender>>



(***************************************************************************)
(* Values.                                                                  *)
(***************************************************************************)
None == <<>>
Some(x) == <<x>>

\* the id field of a call that is given no transfer id
NoId == ""

\* the tasks that call the manager at the same time
Callers == {"c1", "c2"}

\* a caller that is in no call
Idle == [op |-> "idle", pc |-> "idle"]

\* no send_files is running
NoSender == [pc |-> "none"]

\* a step of a call taken as a whole: no other call is under way
Alone == UNCHANGED <<lock, history_lock, calls, sender>>

\* the arguments init_transfer is called with
Request(filename, total_size, chunk_size, batch_id) ==
    [filename |-> filename, total_size |-> total_size,
     chunk_size |-> chunk_size, batch_id |-> batch_id]

InitRequests ==
    {Request("a", 2, 1, None), Request("a", 1, 2, Some("B1")),
     Request("b", 0, 1, None), Request("b", 2, 0, None)}

\* format!("trans_{}", Utc::now().timestamp_millis())
TransferId(ms) == "trans_" \o ToString(ms)

TransferIds == {TransferId(ms) : ms \in Instants}

\* hex::encode(Sha256::digest(bytes)): the digest stands for the bytes hashed
Sha256(bytes) == [sha256 |-> bytes]

\* the decimal digits as characters
Digits == <<"0", "1", "2", "3", "4", "5", "6", "7", "8", "9">>
Digit(d) == Digits[d + 1]

\* Utc::now().to_rfc3339() from the seconds field on, as its characters: two
\* digits of seconds, the fraction only when it is not zero (chrono's AutoSi:
\* three digits for whole milliseconds), and the offset "+00:00".  The date,
\* the hour and the minute before it are the same for all Instants.
Rfc3339(ms) ==
    LET secs == (ms \div 1000) % 60
        frac == ms % 1000
    IN <<Digit(secs \div 10), Digit(secs % 10)>>
       \o (IF frac = 0 THEN <<>>
           ELSE <<".", Digit(frac \div 100), Digit((frac \div 10) % 10),
                  Digit(frac % 10)>>)
       \o <<"+", "0", "0", ":", "0", "0">>

\* the byte of a character of such a text
Byte(c) ==
    CASE c = "+" -> 43
      [] c = "." -> 46
      [] c = ":" -> 58
      [] OTHER -> 48 + (CHOOSE d \in 0..9 : Digit(d) = c)

\* String::cmp: the order of the first bytes that differ, a proper prefix
\* before the longer text; -1, 0 or 1
RECURSIVE Cmp(_, _)
Cmp(a, b) ==
    IF a = <<>> /\ b = <<>> THEN 0
    ELSE IF a = <<>> THEN -1
    ELSE IF b = <<>> THEN 1
    ELSE IF Byte(Head(a)) < Byte(Head(b)) THEN -1
    ELSE IF Byte(Head(a)) > Byte(Head(b)) THEN 1
    ELSE Cmp(Tail(a), Tail(b))

Pending == [tag |-> "Pending"]
InProgress(n) == [tag |-> "InProgress", received_chunks |-> n]
Completed(hash) == [tag |-> "Completed", final_hash |-> hash]
Failed(reason) == [tag |-> "Failed", reason |-> reason]

ChunkInfo(index, data) == [index |-> index, hash |-> Sha256(data), size |-> Len(data)]

\* HashMap::insert and HashMap::remove
Insert(map, key, value) ==
    [k \in DOMAIN map \cup {key} |-> IF k = key THEN value ELSE map[k]]
Remove(map, key) == [k \in DOMAIN map \ {key} |-> map[k]]

\* total_size + chunk_size as u64 does not fit u64: a build with overflow
\* checks (debug) panics there, a build without them (release) wraps
AddOverflows(total_size, chunk_size) == total_size + chunk_size >= Modulus

\* mutant: an empty file is given one chunk
TotalChunksAtLeastOne(total_size, chunk_size) ==
    IF total_size = 0 THEN 1
    ELSE ((total_size + chunk_size - 1) % Modulus) \div chunk_size

\* ((total_size + chunk_size as u64 - 1) / chunk_size as u64) as usize
TotalChunks(total_size, chunk_size) ==
    ((total_size + chunk_size - 1) % Modulus) \div chunk_size

\* TransferMetadata: the fields of a Transfer other than its chunks
Metadata(t) ==
    [id |-> t.id, filename |-> t.filename, total_size |-> t.total_size,
     chunk_size |-> t.chunk_size, total_chunks |-> t.total_chunks,
     batch_id |-> t.batch_id, status |-> t.status]

\* mutant: the batch id of the request is not stored
NewTransferNoBatch(id, filename, total_size, chunk_size, batch_id) ==
    [id |-> id, filename |-> filename, total_size |-> total_size,
     chunk_size |-> chunk_size,
     total_chunks |-> TotalChunks(total_size, chunk_size),
     batch_id |-> None, status |-> Pending,
     received_chunks |-> <<>>, temp_dir |-> <<>>]

\* the Transfer that init_transfer inserts: no chunk record, an empty TempDir
NewTransfer(id, filename, total_size, chunk_size, batch_id) ==
    [id |-> id, filename |-> filename, total_size |-> total_size,
     chunk_size |-> chunk_size,
     total_chunks |-> TotalChunks(total_size, chunk_size),
     batch_id |-> batch_id, status |-> Pending,
     received_chunks |-> <<>>, temp_dir |-> <<>>]

(***************************************************************************)
(* What a call returned.  res is "Ok" or the error: the anyhow message of   *)
(* init_transfer or the TransferError variant; expected/got are the fields  *)
(* of ChunkOutOfOrder; ret is Some(the Ok value); http is the status code   *)
(* of the HTTP handler, 0 for a call made on the manager itself; prior is   *)
(* the status the session had when a receive_chunk or a cancel_transfer     *)
(* that succeeded was called.                                               *)
(***************************************************************************)
Result(op, id, res, expected, got, ret, http, prior) ==
    [op |-> op, id |-> id, res |-> res, expected |-> expected, got |-> got,
     ret |-> ret, http |-> http, prior |-> prior]

Ok(op, id, ret, http) == Result(op, id, "Ok", 0, 0, ret, http, None)
Err(op, id, res, http) == Result(op, id, res, 0, 0, None, http, None)

Init ==
    /\ now = 0
    /\ transfers = <<>>
    /\ completed_uploads = <<>>
    /\ storage = <<>>
    /\ io_faults = 0
    /\ last = Err("new", NoId, "Ok", 0)
    /\ retired = {}
    /\ attempted = <<>>
    /\ lock = None
    /\ history_lock = None
    /\ calls = [c \in Callers |-> Idle]
    /\ sender = NoSender

\* the wall clock advances
Tick ==
    /\ now + 1 \in Instants
    /\ now' = now + 1
    /\ UNCHANGED <<transfers, completed_uploads, storage, io_faults, last,
                   retired, attempted, lock, history_lock, calls, sender>>

\* a file-system call returns an error
IoFault ==
    /\ io_faults < MaxIoFaults
    /\ io_faults' = io_faults + 1

(***************************************************************************)
(* init_transfer                                                            *)
(***************************************************************************)
\* mutant: the manager does not validate chunk_size
ChunkSizeNotChecked(chunk_size) == TRUE

\* if chunk_size == 0 { return Err(anyhow!("chunk_size must be greater than 0")) }
ChunkSizeValid(chunk_size) == chunk_size # 0

\* the status code of the init handler for the manager's answer
InitStatus(res, http) ==
    IF http = 0 THEN 0 ELSE IF res = "Ok" THEN 200 ELSE 500

InitTransferCall(filename, total_size, chunk_size, batch_id, http) ==
    LET id == TransferId(now) IN
    /\ UNCHANGED <<retired, attempted>>
    /\ IF ~ChunkSizeValid(chunk_size)
       THEN /\ last' = Err("init_transfer", NoId, "chunk_size must be greater than 0",
                           InitStatus("Err", http))
            /\ UNCHANGED <<now, transfers, completed_uploads, storage, io_faults>>
       ELSE IF chunk_size = 0
       THEN \* the division of line 122 panics
            /\ last' = Err("init_transfer", NoId, "panic", InitStatus("Err", http))
            /\ UNCHANGED <<now, transfers, completed_uploads, storage, io_faults>>
       ELSE \/ \* the addition of line 122 panics in a build with overflow checks
               /\ AddOverflows(total_size, chunk_size)
               /\ last' = Err("init_transfer", NoId, "panic", InitStatus("Err", http))
               /\ UNCHANGED <<now, transfers, completed_uploads, storage, io_faults>>
            \/ \* TempDir::new()? fails
               /\ IoFault
               /\ last' = Err("init_transfer", NoId, "Io", InitStatus("Err", http))
               /\ UNCHANGED <<now, transfers, completed_uploads, storage>>
            \/ /\ transfers' = Insert(transfers, id,
                     NewTransfer(id, filename, total_size, chunk_size, batch_id))
               /\ last' = Ok("init_transfer", NoId, Some(id), InitStatus("Ok", http))
               /\ UNCHANGED <<now, completed_uploads, storage, io_faults>>

InitTransfer ==
    /\ Alone
    /\ \E r \in InitRequests :
           InitTransferCall(r.filename, r.total_size, r.chunk_size, r.batch_id, 0)

(***************************************************************************)
(* The HTTP handler init_transfer of routes.rs: it answers 400 without      *)
(* calling the manager when chunk_size is 0, and otherwise maps the         *)
(* manager's answer to 200 or 500.                                          *)
(***************************************************************************)
HttpChunkSizeRejected(chunk_size) == chunk_size = 0

HttpInitTransferCall(filename, total_size, chunk_size, batch_id) ==
    IF HttpChunkSizeRejected(chunk_size)
    THEN /\ last' = Err("http_init_transfer", NoId,
                        "Invalid chunk_size: must be greater than 0", 400)
         /\ UNCHANGED <<now, transfers, completed_uploads, storage, io_faults,
                        retired, attempted>>
    ELSE InitTransferCall(filename, total_size, chunk_size, batch_id, 1)

HttpInitTransfer ==
    /\ Alone
    /\ \E r \in InitRequests :
           HttpInitTransferCall(r.filename, r.total_size, r.chunk_size, r.batch_id)

(***************************************************************************)
(* receive_chunk                                                            *)
(***************************************************************************)
\* mutant: the range check is off by one
IndexInRangeInclusive(t, chunk_index) == chunk_index <= t.total_chunks

\* mutant: receive_chunk does not check the index
IndexNotChecked(t, chunk_index) == TRUE

\* if chunk_index >= transfer.metadata.total_chunks { Err }
IndexInRange(t, chunk_index) == chunk_index < t.total_chunks

\* the prefixes of data that a failed write_all can leave in the chunk file
Prefixes(data) == {SubSeq(data, 1, n) : n \in 0..Len(data)}

\* mutant: the status counts the chunks submitted, not the indices held
StatusCountsSubmissions(t, received_chunks) ==
    InProgress(IF t.status.tag = "InProgress"
               THEN t.status.received_chunks + 1 ELSE 1)

\* transfer.metadata.status = InProgress { received_chunks: received_chunks.len() }
StatusAfterReceive(t, received_chunks) ==
    InProgress(Cardinality(DOMAIN received_chunks))

\* File::create(&chunk_path) truncates chunk_<index>.tmp or creates it, and
\* write_all puts the bytes in it
WriteChunkFile(temp_dir, chunk_index, bytes) == Insert(temp_dir, chunk_index, bytes)

\* mutant: the status is set from the records before the new one is inserted
StoreChunkStatusFirst(t, chunk_index, data) ==
    [t EXCEPT !.temp_dir = WriteChunkFile(t.temp_dir, chunk_index, data),
              !.received_chunks =
                  Insert(t.received_chunks, chunk_index, ChunkInfo(chunk_index, data)),
              !.status = StatusAfterReceive(t, t.received_chunks)]

\* mutant: the record is inserted before the chunk file is written
SessionRecordedBeforeWrite(t, chunk_index, written) ==
    LET received_chunks ==
            Insert(t.received_chunks, chunk_index, ChunkInfo(chunk_index, written))
    IN [t EXCEPT !.temp_dir = WriteChunkFile(t.temp_dir, chunk_index, written),
                 !.received_chunks = received_chunks,
                 !.status = StatusAfterReceive(t, received_chunks)]

\* the session when write_all or sync_all returns the error: lines 185-194
\* are not reached, the chunk file holds what was written of the data
SessionOnWriteError(t, chunk_index, written) ==
    [t EXCEPT !.temp_dir = WriteChunkFile(t.temp_dir, chunk_index, written)]

\* lines 176-194: the chunk file is written, then the record and the status
StoreChunk(t, chunk_index, data) ==
    LET received_chunks ==
            Insert(t.received_chunks, chunk_index, ChunkInfo(chunk_index, data))
    IN [t EXCEPT !.temp_dir = WriteChunkFile(t.temp_dir, chunk_index, data),
                 !.received_chunks = received_chunks,
                 !.status = StatusAfterReceive(t, received_chunks)]

ReceiveChunkCall(transfer_id, chunk_index, data) ==
    /\ UNCHANGED <<now, completed_uploads, storage, retired>>
    /\ IF transfer_id \notin DOMAIN transfers
       THEN /\ last' = Err("receive_chunk", transfer_id, "TransferNotFound", 0)
            /\ UNCHANGED <<transfers, io_faults, attempted>>
       ELSE LET t == transfers[transfer_id] IN
            IF ~IndexInRange(t, chunk_index)
            THEN /\ last' = Result("receive_chunk", transfer_id, "ChunkOutOfOrder",
                                   t.total_chunks, chunk_index, None, 0, None)
                 /\ UNCHANGED <<transfers, io_faults, attempted>>
            ELSE /\ attempted' = Remove(attempted, transfer_id)
                 /\ \/ \* File::create fails: the chunk file is as it was
                       /\ IoFault
                       /\ last' = Err("receive_chunk", transfer_id, "Io", 0)
                       /\ UNCHANGED transfers
                    \/ \* write_all or sync_all fails: the file was truncated
                       \* by File::create and holds some prefix of the data
                       /\ IoFault
                       /\ \E written \in Prefixes(data) :
                              transfers' =
                                  [transfers EXCEPT ![transfer_id] =
                                      SessionOnWriteError(t, chunk_index, written)]
                       /\ last' = Err("receive_chunk", transfer_id, "Io", 0)
                    \/ /\ transfers' = [transfers EXCEPT ![transfer_id] =
                                           StoreChunk(t, chunk_index, data)]
                       /\ last' = Result("receive_chunk", transfer_id, "Ok", 0, 0,
                                         Some(Sha256(data)), 0, Some(t.status))
                       /\ UNCHANGED io_faults

ReceiveChunk ==
    /\ Alone
    /\ \E transfer_id \in TransferIds, chunk_index \in 0..MaxIndex,
          data \in ChunkData :
           ReceiveChunkCall(transfer_id, chunk_index, data)

(***************************************************************************)
(* complete_transfer                                                        *)
(***************************************************************************)
\* mutant: the check lets a session with fewer records than total_chunks pass
AllChunksReceivedLoose(t) == Cardinality(DOMAIN t.received_chunks) <= t.total_chunks

\* the sizes of the first n records added up
RECURSIVE RecordedSize(_, _)
RecordedSize(t, n) ==
    IF n = 0 THEN 0
    ELSE RecordedSize(t, n - 1) +
         (IF n - 1 \in DOMAIN t.received_chunks
          THEN t.received_chunks[n - 1].size ELSE 0)

\* mutant: the check also compares the bytes received with total_size
AllChunksReceivedOfDeclaredSize(t) ==
    /\ Cardinality(DOMAIN t.received_chunks) = t.total_chunks
    /\ RecordedSize(t, t.total_chunks) = t.total_size

\* mutant: a session that expects no chunk is never complete
AllChunksReceivedNonEmpty(t) ==
    /\ t.total_chunks > 0
    /\ Cardinality(DOMAIN t.received_chunks) = t.total_chunks

\* if transfer.received_chunks.len() != transfer.metadata.total_chunks { Err }
AllChunksReceived(t) == Cardinality(DOMAIN t.received_chunks) = t.total_chunks

\* mutant: the two fields of the error are filled the other way round
IncompleteErrorSwapped(t) ==
    [expected |-> Cardinality(DOMAIN t.received_chunks), got |-> t.total_chunks]

\* the error of lines 208-211
IncompleteError(t) ==
    [expected |-> t.total_chunks, got |-> Cardinality(DOMAIN t.received_chunks)]

\* mutant: the loop visits the chunk files from the last index down
ChunkOrderDescending(t) == [i \in 1..t.total_chunks |-> t.total_chunks - i]

\* the order in which the loop of line 222 visits the chunk files
ChunkOrder(t) == [i \in 1..t.total_chunks |-> i - 1]

\* the chunk files the loop can open before it meets one that does not exist
ReadableCount(t) ==
    LET order == ChunkOrder(t)
        missing == {k \in 1..Len(order) : order[k] \notin DOMAIN t.temp_dir}
    IN IF missing = {} THEN Len(order)
       ELSE (CHOOSE k \in missing : \A m \in missing : k <= m) - 1

\* the bytes the loop has written (and hashed) after its first n passes
RECURSIVE Written(_, _)
Written(t, n) ==
    IF n = 0 THEN <<>>
    ELSE Written(t, n - 1) \o t.temp_dir[ChunkOrder(t)[n]]

\* the whole reassembled file
Reassembled(t) == Written(t, t.total_chunks)

\* mutant: the hasher is started anew for each chunk
FinalHashOfLastChunk(t) ==
    Sha256(IF t.total_chunks = 0 THEN <<>>
           ELSE t.temp_dir[ChunkOrder(t)[t.total_chunks]])

\* hex::encode(final_hasher.finalize()): the hasher was fed each chunk right
\* after the chunk was written to the destination
FinalHash(t) == Sha256(Reassembled(t))

\* unwrap_or_else(|| format!("single_{}", transfer.metadata.id))
BatchIdOf(t) == IF t.batch_id = None THEN "single_" \o t.id ELSE t.batch_id[1]

\* mutant: the record carries the length of the file that was written
CompletedUploadMeasured(t, uploaded_at) ==
    [batch_id |-> BatchIdOf(t), name |-> t.filename,
     size |-> Len(Reassembled(t)), uploaded_at |-> uploaded_at]

CompletedUpload(t, uploaded_at) ==
    [batch_id |-> BatchIdOf(t), name |-> t.filename, size |-> t.total_size,
     uploaded_at |-> uploaded_at]

\* the destination file after a failure past File::create: what the passes
\* before the failure wrote, and possibly a part of the failing pass
PartialFiles(t) ==
    LET n == ReadableCount(t)
        full == Written(t, n)
    IN IF n = t.total_chunks THEN Prefixes(full)
       ELSE {full} \cup
            {p \in Prefixes(full) : io_faults < MaxIoFaults /\ p # full}

\* mutant: the session is taken out of the registry before it is reassembled
RegistryWithoutSession(transfer_id) == Remove(transfers, transfer_id)

\* mutant: the session is marked Failed when the reassembly meets an error
RegistryMarkingFailed(transfer_id) ==
    [transfers EXCEPT ![transfer_id].status = Failed("Io")]

\* mutant: the scratch directory is emptied when the reassembly meets an error
RegistryWithScratchCleared(transfer_id) ==
    [transfers EXCEPT ![transfer_id].temp_dir = <<>>]

\* the registry when a `?` of lines 218-232 returns the I/O error: line 237,
\* which sets the status, and line 259, which removes the session, are not
\* reached
RegistryOnReassemblyError(transfer_id) == transfers

\* mutant: a file that is already under the name is left as it is
StorageKeepingExisting(t) ==
    IF t.filename \in DOMAIN storage THEN storage
    ELSE Insert(storage, t.filename, Reassembled(t))

\* the files under storage_path when the loop is through: File::create
\* truncated or created the file of the session's filename
StorageAfterComplete(t) == Insert(storage, t.filename, Reassembled(t))

\* mutant: complete_transfer leaves the session in the registry
RegistryStillHolding(transfer_id) == transfers

\* transfers.remove(transfer_id) of line 259
RegistryAfterComplete(transfer_id) == Remove(transfers, transfer_id)

\* history: the file and the hash a failing complete_transfer was working on
Attempt(t) ==
    LET file == Written(t, ReadableCount(t))
    IN [filename |-> t.filename, file |-> file, final_hash |-> Sha256(file)]

\* complete_transfer, in a run of at most max_uploads completed uploads
CompleteTransferBounded(transfer_id, max_uploads) ==
    /\ UNCHANGED now
    /\ IF transfer_id \notin DOMAIN transfers
       THEN /\ last' = Err("complete_transfer", transfer_id, "TransferNotFound", 0)
            /\ UNCHANGED <<transfers, completed_uploads, storage, io_faults,
                           retired, attempted>>
       ELSE LET t == transfers[transfer_id] IN
            IF ~AllChunksReceived(t)
            THEN /\ last' = Result("complete_transfer", transfer_id,
                                   "ChunkOutOfOrder", IncompleteError(t).expected,
                                   IncompleteError(t).got, None, 0, None)
                 /\ UNCHANGED <<transfers, completed_uploads, storage, io_faults,
                                retired, attempted>>
            ELSE \/ \* File::create(&final_path) fails
                    /\ IoFault
                    /\ last' = Err("complete_transfer", transfer_id, "Io", 0)
                    /\ attempted' = Insert(attempted, transfer_id, Attempt(t))
                    /\ transfers' = RegistryOnReassemblyError(transfer_id)
                    /\ UNCHANGED <<completed_uploads, storage, retired>>
                 \/ \* a chunk file cannot be opened or read, or write_all or
                    \* sync_all on the destination fails
                    /\ IF ReadableCount(t) = t.total_chunks
                       THEN IoFault ELSE UNCHANGED io_faults
                    /\ \E partial \in PartialFiles(t) :
                           storage' = Insert(storage, t.filename, partial)
                    /\ last' = Err("complete_transfer", transfer_id, "Io", 0)
                    /\ attempted' = Insert(attempted, transfer_id, Attempt(t))
                    /\ transfers' = RegistryOnReassemblyError(transfer_id)
                    /\ UNCHANGED <<completed_uploads, retired>>
                 \/ /\ ReadableCount(t) = t.total_chunks
                    /\ Len(completed_uploads) < max_uploads
                    /\ LET final_hash == FinalHash(t)
                           done == [t EXCEPT !.status = Completed(final_hash)]
                       IN /\ storage' = StorageAfterComplete(t)
                          /\ completed_uploads' =
                                 Append(completed_uploads,
                                        CompletedUpload(done, Rfc3339(now)))
                          /\ transfers' = RegistryAfterComplete(transfer_id)
                          /\ last' = Ok("complete_transfer", transfer_id,
                                        Some(Metadata(done)), 0)
                    /\ retired' = retired \cup {transfer_id}
                    /\ attempted' = Remove(attempted, transfer_id)
                    /\ UNCHANGED io_faults

CompleteTransferCall(transfer_id) ==
    CompleteTransferBounded(transfer_id, MaxUploads)

CompleteTransfer ==
    /\ Alone
    /\ \E transfer_id \in TransferIds : CompleteTransferCall(transfer_id)

(***************************************************************************)
(* get_transfer_status and cancel_transfer                                  *)
(***************************************************************************)
GetTransferStatusCall(transfer_id) ==
    /\ last' = Ok("get_transfer_status", transfer_id,
                  Some(IF transfer_id \in DOMAIN transfers
                       THEN Some(Metadata(transfers[transfer_id])) ELSE None), 0)
    /\ UNCHANGED <<now, transfers, completed_uploads, storage, io_faults,
                   retired, attempted>>

GetTransferStatus ==
    /\ Alone
    /\ \E transfer_id \in TransferIds : GetTransferStatusCall(transfer_id)

\* mutant: only a session that has no chunk yet is removed
RegistryKeepsStarted(transfer_id) ==
    IF transfers[transfer_id].status = Pending
    THEN Remove(transfers, transfer_id) ELSE transfers

\* transfers.remove(transfer_id) of cancel_transfer: whatever the session holds
RegistryAfterCancel(transfer_id) == Remove(transfers, transfer_id)

CancelTransferCall(transfer_id) ==
    /\ UNCHANGED <<now, completed_uploads, storage, io_faults>>
    /\ IF transfer_id \notin DOMAIN transfers
       THEN /\ last' = Err("cancel_transfer", transfer_id, "TransferNotFound", 0)
            /\ UNCHANGED <<transfers, retired, attempted>>
       ELSE /\ transfers' = RegistryAfterCancel(transfer_id)
            /\ last' = Result("cancel_transfer", transfer_id, "Ok", 0, 0, None, 0,
                              Some(transfers[transfer_id].status))
            /\ retired' = retired \cup {transfer_id}
            /\ attempted' = Remove(attempted, transfer_id)

CancelTransfer ==
    /\ Alone
    /\ \E transfer_id \in TransferIds : CancelTransferCall(transfer_id)

(***************************************************************************)
(* list_upload_batches                                                      *)
(***************************************************************************)
\* the batch ids of the history: the keys of `grouped`
BatchIds(uploads) == {uploads[k].batch_id : k \in DOMAIN uploads}

\* grouped[batch_id]: the records of a batch in the order they were pushed
RECURSIVE Grouped(_, _)
Grouped(uploads, batch_id) ==
    IF uploads = <<>> THEN <<>>
    ELSE IF Head(uploads).batch_id = batch_id
    THEN <<Head(uploads)>> \o Grouped(Tail(uploads), batch_id)
    ELSE Grouped(Tail(uploads), batch_id)

\* the comparators of the two sort_by calls: a.uploaded_at.cmp(&b.uploaded_at)
\* for the files of a batch, b.uploaded_at.cmp(&a.uploaded_at) for the batches
\* mutant: the batches are sorted like the files, oldest first
LessAscending(a, b, descending) == Cmp(a.uploaded_at, b.uploaded_at) < 0

Less(a, b, descending) ==
    IF descending THEN Cmp(b.uploaded_at, a.uploaded_at) < 0
    ELSE Cmp(a.uploaded_at, b.uploaded_at) < 0

\* sort_by is stable: an element goes behind the elements it is not less than
InsertSorted(sorted, x, descending) ==
    LET behind == {k \in 1..Len(sorted) : Less(x, sorted[k], descending)}
        at == IF behind = {} THEN Len(sorted) + 1
              ELSE CHOOSE k \in behind : \A m \in behind : k <= m
    IN SubSeq(sorted, 1, at - 1) \o <<x>> \o SubSeq(sorted, at, Len(sorted))

RECURSIVE SortBy(_, _)
SortBy(seq, descending) ==
    IF seq = <<>> THEN <<>>
    ELSE InsertSorted(SortBy(SubSeq(seq, 1, Len(seq) - 1), descending),
                      seq[Len(seq)], descending)

UploadedFile(f) == [name |-> f.name, size |-> f.size, uploaded_at |-> f.uploaded_at]

\* the closure of lines 319-339: the files of a batch sorted by time, the
\* batch dated by the last of them
UploadBatch(batch_id, files) ==
    LET sorted == SortBy(files, FALSE)
    IN [batch_id |-> batch_id,
        uploaded_at |-> sorted[Len(sorted)].uploaded_at,
        files |-> [k \in 1..Len(sorted) |-> UploadedFile(sorted[k])]]

\* the orders in which a HashMap with these keys can be iterated
IterationOrders(keys) ==
    {order \in [1..Cardinality(keys) -> keys] :
        \A i, j \in 1..Cardinality(keys) : i # j => order[i] # order[j]}

\* what list_upload_batches returns when `grouped` is iterated in this order
UploadBatches(uploads, order) ==
    SortBy([k \in 1..Len(order) |->
               UploadBatch(order[k], Grouped(uploads, order[k]))], TRUE)

ListUploadBatchesCall ==
    /\ \E order \in IterationOrders(BatchIds(completed_uploads)) :
           last' = Ok("list_upload_batches", NoId,
                      Some(UploadBatches(completed_uploads, order)), 0)
    /\ UNCHANGED <<now, transfers, completed_uploads, storage, io_faults,
                   retired, attempted>>

ListUploadBatches == Alone /\ ListUploadBatchesCall

\* the calls made on the manager and on the HTTP init handler
Next ==
    \/ InitTransfer
    \/ HttpInitTransfer
    \/ ReceiveChunk
    \/ CompleteTransfer
    \/ GetTransferStatus
    \/ CancelTransfer
    \/ ListUploadBatches

\* the calls of one millisecond: the clock stands still
Spec == Init /\ [][Next]_vars

\* the calls, with the clock advancing between them
NextClock == Next \/ Tick

SpecClock == Init /\ [][NextClock]_vars

(***************************************************************************)
(* Uploads that end in the history, over a clock that advances and a file   *)
(* system that does not fail: single-chunk and empty files, sent with no    *)
(* batch id, with a batch id, and with a batch id of the form the manager   *)
(* gives to uploads that have none.                                         *)
(***************************************************************************)
BatchRequests ==
    {Request("a", 1, 1, None), Request("b", 0, 1, Some("B1")),
     Request("c", 0, 1, Some("single_" \o TransferId(0)))}

\* the manager after new(), with a file system that will not fail
InitNoIoFault ==
    /\ now = 0
    /\ transfers = <<>>
    /\ completed_uploads = <<>>
    /\ storage = <<>>
    /\ io_faults = MaxIoFaults
    /\ last = Err("new", NoId, "Ok", 0)
    /\ retired = {}
    /\ attempted = <<>>
    /\ lock = None
    /\ history_lock = None
    /\ calls = [c \in Callers |-> Idle]
    /\ sender = NoSender

InitTransferOfBatch ==
    /\ Alone
    /\ \E r \in BatchRequests :
           InitTransferCall(r.filename, r.total_size, r.chunk_size, r.batch_id, 0)

CompleteTransferOfBatch ==
    /\ Alone
    /\ \E transfer_id \in TransferIds :
           CompleteTransferBounded(transfer_id, MaxHistory)

NextBatches ==
    \/ InitTransferOfBatch
    \/ ReceiveChunk
    \/ CompleteTransferOfBatch
    \/ ListUploadBatches
    \/ Tick

SpecBatches == InitNoIoFault /\ [][NextBatches]_vars

(***************************************************************************)
(* init_transfer over every total_size of u64 and every chunk_size of       *)
(* usize, at their scaled-down width, with a file system that does not      *)
(* fail.                                                                    *)
(***************************************************************************)
Words == 0..(Modulus - 1)

InitTransferOfSize ==
    /\ Alone
    /\ \E total_size \in Words, chunk_size \in Words :
           InitTransferCall("a", total_size, chunk_size, None, 0)

NextSizes == InitTransferOfSize

SpecSizes == InitNoIoFault /\ [][NextSizes]_vars

(***************************************************************************)
(* The HTTP handler get_status of routes.rs, called between init_transfer   *)
(* and receive_chunk calls on a file system that does not fail.             *)
(***************************************************************************)
\* format!("{}", n) of an unsigned integer, as its characters
RECURSIVE Decimal(_)
Decimal(n) ==
    IF n < 10 THEN <<Digit(n)>> ELSE Decimal(n \div 10) \o <<Digit(n % 10)>>

\* (received_chunks * 100) / metadata.total_chunks.  The product stays far
\* below the width of usize: received_chunks counts entries of a HashMap.
Pct(received_chunks, total_chunks) == (received_chunks * 100) \div total_chunks

\* the pair (status_str, progress) of the match on metadata.status
StatusAndProgress(metadata) ==
    CASE metadata.status.tag = "Pending" ->
             [status |-> "pending", progress |-> <<"0", "%">>]
      [] metadata.status.tag = "InProgress" ->
             [status |-> "in_progress",
              progress |-> Decimal(Pct(metadata.status.received_chunks,
                                       metadata.total_chunks)) \o <<"%">>]
      [] metadata.status.tag = "Completed" ->
             [status |-> "completed", progress |-> <<"1", "0", "0", "%">>]
      [] OTHER -> [status |-> "failed", progress |-> metadata.status.reason]

\* the StatusResponse of the handler
StatusResponse(metadata) ==
    [transfer_id |-> metadata.id,
     status |-> StatusAndProgress(metadata).status,
     progress |-> StatusAndProgress(metadata).progress]

\* get_status: success: false for an unknown id; the division panics when
\* total_chunks is 0, and the request is answered by no response
HttpGetStatusCall(transfer_id) ==
    /\ last' =
           IF transfer_id \notin DOMAIN transfers
           THEN Err("http_get_status", transfer_id, "Transfer not found", 200)
           ELSE LET metadata == Metadata(transfers[transfer_id]) IN
                IF metadata.status.tag = "InProgress" /\ metadata.total_chunks = 0
                THEN Err("http_get_status", transfer_id, "panic", 0)
                ELSE Ok("http_get_status", transfer_id,
                        Some(StatusResponse(metadata)), 200)
    /\ UNCHANGED <<now, transfers, completed_uploads, storage, io_faults,
                   retired, attempted>>

HttpGetStatus ==
    /\ Alone
    /\ \E transfer_id \in TransferIds : HttpGetStatusCall(transfer_id)

NextStatus ==
    \/ InitTransfer
    \/ ReceiveChunk
    \/ HttpGetStatus
    \/ Tick

SpecStatus == InitNoIoFault /\ [][NextStatus]_vars

(***************************************************************************)
(* send_files of the CLI (rust-service/src/cli.rs), sending one file to the *)
(* manager through the handlers init_transfer, receive_chunk and            *)
(* complete_transfer of the service, which answer success: true exactly     *)
(* when the manager returns Ok.  The file system of the service can fail,   *)
(* and another client can cancel the session.  file.read fills the buffer   *)
(* except at the end of the file.                                           *)
(***************************************************************************)
SenderFiles == {<<1, 2, 3>>, <<4, 5>>}
ChunkSizesKb == {1, 2}

\* the locals of send_files when the loop over paths takes the file
NewSender(file, chunk_size_kb) ==
    [pc |-> "init", file |-> file, chunk_size |-> chunk_size_kb * Kilo,
     transfer_id |-> NoId, pos |-> 0, chunk_index |-> 0, uploaded |-> 0,
     sent |-> <<>>, success |-> FALSE]

\* the manager after new(), and send_files called with one path
InitSender ==
    /\ now = 0
    /\ transfers = <<>>
    /\ completed_uploads = <<>>
    /\ storage = <<>>
    /\ io_faults = 0
    /\ last = Err("new", NoId, "Ok", 0)
    /\ retired = {}
    /\ attempted = <<>>
    /\ lock = None
    /\ history_lock = None
    /\ calls = [c \in Callers |-> Idle]
    /\ sender \in {NewSender(file, chunk_size_kb) :
                       file \in SenderFiles, chunk_size_kb \in ChunkSizesKb}

\* POST /transfer/init with the file's name, its size and chunk_size; when
\* the answer is not a success the loop over paths goes on to the next file
SenderInit ==
    /\ sender.pc = "init"
    /\ InitTransferCall("a", Len(sender.file), sender.chunk_size, None, 0)
    /\ sender' = IF last'.res = "Ok"
                 THEN [sender EXCEPT !.pc = "read", !.transfer_id = last'.ret[1]]
                 ELSE [sender EXCEPT !.pc = "done"]
    /\ UNCHANGED <<lock, history_lock, calls>>

\* the position of `file` after a read whose chunk was refused: nothing
\* seeks back before `continue`
PosAfterRefused(pos, bytes_read) == pos + bytes_read

\* one pass of the loop with bytes_read > 0: file.read, POST /transfer/chunk
\* under chunk_index, and on success uploaded and chunk_index advance; on a
\* refusal `continue`.  sent keeps, as history, what was posted.
SenderSendChunk ==
    LET remaining == Len(sender.file) - sender.pos
        bytes_read == IF remaining < sender.chunk_size THEN remaining
                      ELSE sender.chunk_size
        chunk_data == SubSeq(sender.file, sender.pos + 1, sender.pos + bytes_read)
    IN /\ sender.pc = "read"
       /\ bytes_read > 0
       /\ ReceiveChunkCall(sender.transfer_id, sender.chunk_index, chunk_data)
       /\ LET accepted == last'.res = "Ok"
              posted == [index |-> sender.chunk_index, offset |-> sender.pos,
                         data |-> chunk_data, accepted |-> accepted]
          IN sender' =
                 IF accepted
                 THEN [sender EXCEPT !.pos = @ + bytes_read,
                                     !.uploaded = @ + bytes_read,
                                     !.chunk_index = @ + 1,
                                     !.sent = Append(@, posted)]
                 ELSE [sender EXCEPT !.pos = PosAfterRefused(@, bytes_read),
                                     !.sent = Append(@, posted)]
       /\ UNCHANGED <<lock, history_lock, calls>>

\* if bytes_read == 0 { break }, then POST /transfer/complete
SenderComplete ==
    /\ sender.pc = "read"
    /\ sender.pos = Len(sender.file)
    /\ CompleteTransferCall(sender.transfer_id)
    /\ sender' = [sender EXCEPT !.pc = "done", !.success = last'.res = "Ok"]
    /\ UNCHANGED <<lock, history_lock, calls>>

\* another client cancels a session
SenderCancelled ==
    /\ UNCHANGED <<lock, history_lock, calls, sender>>
    /\ \E transfer_id \in TransferIds : CancelTransferCall(transfer_id)

NextSender ==
    \/ SenderInit
    \/ SenderSendChunk
    \/ SenderComplete
    \/ SenderCancelled

SpecSender == InitSender /\ [][NextSender]_vars

(***************************************************************************)
(* The calls of several tasks, step by step.  Every method of the manager   *)
(* is an async fn that awaits the tokio Mutex of `transfers` and keeps the  *)
(* guard until it returns; tokio runs the callers' tasks in any order       *)
(* between those awaits and the awaits of the file system.  A caller is in  *)
(* one call at a time; pc names the step it takes next.  The file system    *)
(* does not fail here, and init_transfer is called while the id it would    *)
(* give is new, so that each session is followed from one creation.         *)
(***************************************************************************)
CallRequests == {Request("a", 2, 1, None)}

\* mutant: lock() returns while another caller holds a guard
MutexIgnored(holder) == TRUE

\* self.transfers.lock().await returns when no guard is alive
MutexFree(holder) == holder = None

\* mutant: the guard is dropped before the chunk file is written
LockDroppedAfterLookup(c) == None

\* `transfers`, the guard of line 158, lives to the end of receive_chunk
LockAfterLookup(c) == Some(c)

\* the fields of the manager that a step of a caller can leave alone
manager == <<now, transfers, completed_uploads, storage, io_faults, last,
             retired, attempted>>

\* init_transfer is called: lines 117-125, no state of the manager is read
\* but the clock
CallInit(c) ==
    \E r \in CallRequests :
        /\ calls[c] = Idle
        /\ ChunkSizeValid(r.chunk_size)
        /\ ~AddOverflows(r.total_size, r.chunk_size)
        /\ TransferId(now) \notin DOMAIN transfers \cup retired
        /\ \A d \in Callers : calls[d].op # "init_transfer"
        /\ UNCHANGED <<history_lock, sender>>
        /\ calls' = [calls EXCEPT ![c] =
                        [op |-> "init_transfer", pc |-> "tempdir",
                         id |-> TransferId(now), request |-> r]]
        /\ UNCHANGED <<lock, manager>>

\* let temp_dir = TempDir::new()?: the scratch directory of the session is
\* created, line 127, and the Transfer is built around it, lines 129-144
InitTempDir(c) ==
    /\ calls[c].op = "init_transfer"
    /\ calls[c].pc = "tempdir"
    /\ UNCHANGED <<history_lock, sender>>
    /\ calls' = [calls EXCEPT ![c] =
                    [op |-> "init_transfer", pc |-> "lock", id |-> calls[c].id,
                     transfer |-> NewTransfer(calls[c].id, calls[c].request.filename,
                                              calls[c].request.total_size,
                                              calls[c].request.chunk_size,
                                              calls[c].request.batch_id)]]
    /\ UNCHANGED <<lock, manager>>

\* let mut transfers = self.transfers.lock().await, line 146
InitLock(c) ==
    /\ calls[c].op = "init_transfer"
    /\ calls[c].pc = "lock"
    /\ MutexFree(lock)
    /\ lock' = Some(c)
    /\ UNCHANGED <<history_lock, sender>>
    /\ calls' = [calls EXCEPT ![c].pc = "insert"]
    /\ UNCHANGED manager

\* transfers.insert(transfer_id.clone(), transfer); Ok(transfer_id)
InitInsert(c) ==
    /\ calls[c].op = "init_transfer"
    /\ calls[c].pc = "insert"
    /\ transfers' = Insert(transfers, calls[c].id, calls[c].transfer)
    /\ last' = Ok("init_transfer", NoId, Some(calls[c].id), 0)
    /\ lock' = None
    /\ UNCHANGED <<history_lock, sender>>
    /\ calls' = [calls EXCEPT ![c] = Idle]
    /\ UNCHANGED <<now, completed_uploads, storage, io_faults, retired, attempted>>

\* the handler receive_chunk of routes.rs calls manager.receive_chunk, which
\* takes the lock in its first statement, line 158
CallReceive(c) ==
    \E transfer_id \in TransferIds, chunk_index \in 0..MaxIndex,
       data \in ChunkData :
        /\ calls[c] = Idle
        /\ MutexFree(lock)
        /\ lock' = Some(c)
        /\ UNCHANGED <<history_lock, sender>>
        /\ calls' = [calls EXCEPT ![c] =
                        [op |-> "http_receive_chunk", pc |-> "lookup",
                         transfer_id |-> transfer_id, chunk_index |-> chunk_index,
                         data |-> data, recorded |-> 0]]
        /\ UNCHANGED manager

\* lines 160-169: the session is looked up and the index is checked; on an
\* error the guard is dropped and the handler answers success: false
ReceiveLookup(c) ==
    LET call == calls[c] IN
    /\ call.op = "http_receive_chunk"
    /\ call.pc = "lookup"
    /\ IF \/ call.transfer_id \notin DOMAIN transfers
          \/ ~IndexInRange(transfers[call.transfer_id], call.chunk_index)
       THEN /\ ReceiveChunkCall(call.transfer_id, call.chunk_index, call.data)
            /\ lock' = None
            /\ UNCHANGED <<history_lock, sender>>
            /\ calls' = [calls EXCEPT ![c] = Idle]
       ELSE /\ lock' = LockAfterLookup(c)
            /\ UNCHANGED <<history_lock, sender>>
            /\ calls' = [calls EXCEPT ![c].pc = "write"]
            /\ UNCHANGED manager

\* lines 177-180: File::create, write_all and sync_all on the chunk file
ReceiveWrite(c) ==
    LET call == calls[c] IN
    /\ call.op = "http_receive_chunk"
    /\ call.pc = "write"
    /\ transfers' =
           IF call.transfer_id \in DOMAIN transfers
           THEN [transfers EXCEPT ![call.transfer_id].temp_dir =
                    WriteChunkFile(@, call.chunk_index, call.data)]
           ELSE transfers
    /\ UNCHANGED <<history_lock, sender>>
    /\ calls' = [calls EXCEPT ![c].pc = "record"]
    /\ UNCHANGED <<now, completed_uploads, storage, io_faults, last, retired,
                   attempted, lock>>

\* lines 185-194: the record is inserted and the status is set to the count
RecordChunk(t, chunk_index, data) ==
    LET received_chunks ==
            Insert(t.received_chunks, chunk_index, ChunkInfo(chunk_index, data))
    IN [t EXCEPT !.received_chunks = received_chunks,
                 !.status = StatusAfterReceive(t, received_chunks)]

\* lines 185-196: the record, the status, Ok(hash); the guard is dropped.
\* `recorded` keeps, as history, the count the session has at this point.
ReceiveRecord(c) ==
    LET call == calls[c] IN
    /\ call.op = "http_receive_chunk"
    /\ call.pc = "record"
    /\ call.transfer_id \in DOMAIN transfers
    /\ LET t == transfers[call.transfer_id]
           stored == RecordChunk(t, call.chunk_index, call.data)
       IN /\ transfers' = [transfers EXCEPT ![call.transfer_id] = stored]
          /\ last' = Result("receive_chunk", call.transfer_id, "Ok", 0, 0,
                            Some(Sha256(call.data)), 0, Some(t.status))
          /\ UNCHANGED <<history_lock, sender>>
          /\ calls' = [calls EXCEPT ![c].pc = "status_lock",
                                    ![c].recorded =
                                        Cardinality(DOMAIN stored.received_chunks)]
    /\ attempted' = Remove(attempted, call.transfer_id)
    /\ lock' = None
    /\ UNCHANGED <<now, completed_uploads, storage, io_faults, retired>>

\* Ok(hash) => manager.get_transfer_status(&transfer_id).await: the handler
\* takes the lock again, line 265 of the manager
HttpStatusLock(c) ==
    /\ calls[c].op = "http_receive_chunk"
    /\ calls[c].pc = "status_lock"
    /\ MutexFree(lock)
    /\ lock' = Some(c)
    /\ UNCHANGED <<history_lock, sender>>
    /\ calls' = [calls EXCEPT ![c].pc = "status"]
    /\ UNCHANGED manager

\* let received = match &metadata.status { InProgress { received_chunks } =>
\* *received_chunks, _ => metadata.total_chunks }
ReceivedOf(metadata) ==
    IF metadata.status.tag = "InProgress"
    THEN metadata.status.received_chunks ELSE metadata.total_chunks

\* the ChunkResponse of the handler
ChunkResponse(chunk_hash, metadata) ==
    [chunk_hash |-> chunk_hash, received_count |-> ReceivedOf(metadata),
     total_chunks |-> metadata.total_chunks]

\* get_transfer_status reads the metadata and drops the guard; the handler
\* answers with the ChunkResponse, or with NOT_FOUND when there is no session
HttpRespond(c) ==
    LET call == calls[c] IN
    /\ call.op = "http_receive_chunk"
    /\ call.pc = "status"
    /\ last' = IF call.transfer_id \in DOMAIN transfers
               THEN Ok("http_receive_chunk", call.transfer_id,
                       Some(ChunkResponse(Sha256(call.data),
                                          Metadata(transfers[call.transfer_id]))),
                       200)
               ELSE Err("http_receive_chunk", call.transfer_id, "NOT_FOUND", 404)
    /\ lock' = None
    /\ UNCHANGED <<history_lock, sender>>
    /\ calls' = [calls EXCEPT ![c] = Idle]
    /\ UNCHANGED <<now, transfers, completed_uploads, storage, io_faults,
                   retired, attempted>>

\* complete_transfer takes the lock in its first statement, line 200
CallComplete(c) ==
    \E transfer_id \in TransferIds :
        /\ calls[c] = Idle
        /\ MutexFree(lock)
        /\ Len(completed_uploads) < MaxUploads
        /\ lock' = Some(c)
        /\ UNCHANGED <<history_lock, sender>>
        /\ calls' = [calls EXCEPT ![c] =
                        [op |-> "complete_transfer", pc |-> "run",
                         transfer_id |-> transfer_id]]
        /\ UNCHANGED manager

\* lines 202-261 of complete_transfer, all with the guard alive
CompleteRun(c) ==
    /\ calls[c].op = "complete_transfer"
    /\ calls[c].pc = "run"
    /\ CompleteTransferCall(calls[c].transfer_id)
    /\ lock' = None
    /\ UNCHANGED <<history_lock, sender>>
    /\ calls' = [calls EXCEPT ![c] = Idle]

\* cancel_transfer takes the lock in its first statement, line 270
CallCancel(c) ==
    \E transfer_id \in TransferIds :
        /\ calls[c] = Idle
        /\ MutexFree(lock)
        /\ lock' = Some(c)
        /\ UNCHANGED <<history_lock, sender>>
        /\ calls' = [calls EXCEPT ![c] =
                        [op |-> "cancel_transfer", pc |-> "run",
                         transfer_id |-> transfer_id]]
        /\ UNCHANGED manager

\* lines 271-275 of cancel_transfer
CancelRun(c) ==
    /\ calls[c].op = "cancel_transfer"
    /\ calls[c].pc = "run"
    /\ CancelTransferCall(calls[c].transfer_id)
    /\ lock' = None
    /\ UNCHANGED <<history_lock, sender>>
    /\ calls' = [calls EXCEPT ![c] = Idle]

NextCalls ==
    \/ Tick
    \/ \E c \in Callers :
        \/ CallInit(c)
        \/ InitTempDir(c)
        \/ InitLock(c)
        \/ InitInsert(c)
        \/ CallReceive(c)
        \/ ReceiveLookup(c)
        \/ ReceiveWrite(c)
        \/ ReceiveRecord(c)
        \/ HttpStatusLock(c)
        \/ HttpRespond(c)
        \/ CallComplete(c)
        \/ CompleteRun(c)
        \/ CallCancel(c)
        \/ CancelRun(c)

SpecCalls == InitNoIoFault /\ [][NextCalls]_vars

(***************************************************************************)
(* The calls of several tasks with both Mutexes of the manager, a call      *)
(* being under way from the moment it is made: it waits at each             *)
(* lock().await until the Mutex is free.  complete_transfer is taken in the *)
(* steps between its two lock().await; the file system does not fail; two   *)
(* init_transfer in one millisecond get the same id.                        *)
(***************************************************************************)
\* the calls a task makes
CallsMade ==
    {[op |-> "init_transfer", pc |-> "tempdir", id |-> TransferId(now),
      request |-> Request("a", 1, 1, None)]}
    \cup {[op |-> "http_receive_chunk", pc |-> "lock", transfer_id |-> id,
           chunk_index |-> 0, data |-> <<0>>, recorded |-> 0] :
              id \in TransferIds}
    \cup {[op |-> op, pc |-> "lock", transfer_id |-> id] :
              op \in {"complete_transfer", "cancel_transfer",
                      "get_transfer_status"},
              id \in TransferIds}
    \cup {[op |-> "list_upload_batches", pc |-> "history_lock"]}

\* the complete_transfer calls that are under way
Completing == {c \in Callers : calls[c].op = "complete_transfer"}

\* a task makes one of the calls of `made`
Begin(c, made) ==
    \E call \in made :
        /\ calls[c] = Idle
        /\ call.op = "complete_transfer"
           => Len(completed_uploads) + Cardinality(Completing) < MaxHistory
        /\ calls' = [calls EXCEPT ![c] = call]
        /\ UNCHANGED <<lock, history_lock, sender, manager>>

\* a task calls the manager (or, for a chunk, the handler receive_chunk)
BeginCall(c) == Begin(c, CallsMade)

\* the step a call takes first with the guard of `transfers`
AfterLock(op) ==
    CASE op = "http_receive_chunk" -> "lookup"
      [] op = "complete_transfer" -> "reassemble"
      [] OTHER -> "run"

\* self.transfers.lock().await in the first statement of receive_chunk,
\* complete_transfer, get_transfer_status and cancel_transfer
AwaitLock(c) ==
    /\ calls[c].op \in {"http_receive_chunk", "complete_transfer",
                        "cancel_transfer", "get_transfer_status"}
    /\ calls[c].pc = "lock"
    /\ MutexFree(lock)
    /\ lock' = Some(c)
    /\ calls' = [calls EXCEPT ![c].pc = AfterLock(calls[c].op)]
    /\ UNCHANGED <<history_lock, sender, manager>>

\* mutant: complete_transfer drops the guard of `transfers` before it waits
\* for `completed_uploads`
LockDroppedForHistory(c) == None

\* `transfers`, the guard of line 200, lives to the end of complete_transfer
LockAfterReassembly(c) == Some(c)

\* lines 202-241 of complete_transfer: the lookup, the count check, the
\* destination file written from the chunk files, the status set to Completed
CompleteReassemble(c) ==
    LET id == calls[c].transfer_id IN
    /\ calls[c].op = "complete_transfer"
    /\ calls[c].pc = "reassemble"
    /\ UNCHANGED <<history_lock, sender>>
    /\ IF id \notin DOMAIN transfers \/ ~AllChunksReceived(transfers[id])
       THEN /\ CompleteTransferBounded(id, MaxHistory)
            /\ lock' = None
            /\ calls' = [calls EXCEPT ![c] = Idle]
       ELSE LET t == transfers[id] IN
            /\ storage' = StorageAfterComplete(t)
            /\ transfers' = [transfers EXCEPT ![id].status = Completed(FinalHash(t))]
            /\ lock' = LockAfterReassembly(c)
            /\ calls' = [calls EXCEPT ![c].pc = "history_lock"]
            /\ UNCHANGED <<now, completed_uploads, io_faults, last, retired,
                           attempted>>

\* self.completed_uploads.lock().await: line 244 of complete_transfer, line
\* 307 of list_upload_batches
AwaitHistoryLock(c) ==
    /\ calls[c].op \in {"complete_transfer", "list_upload_batches"}
    /\ calls[c].pc = "history_lock"
    /\ MutexFree(history_lock)
    /\ history_lock' = Some(c)
    /\ calls' = [calls EXCEPT ![c].pc =
                    IF calls[c].op = "complete_transfer" THEN "push" ELSE "run"]
    /\ UNCHANGED <<lock, sender, manager>>

\* mutant: the guard of `completed_uploads` outlives the call
HistoryLockKept(c) == Some(c)

\* both guards are dropped when complete_transfer returns
HistoryLockAfterReturn(c) == None

\* lines 245-261 of complete_transfer: the record is pushed, the session is
\* removed, Ok(metadata)
CompletePush(c) ==
    LET id == calls[c].transfer_id IN
    /\ calls[c].op = "complete_transfer"
    /\ calls[c].pc = "push"
    /\ id \in DOMAIN transfers
    /\ completed_uploads' =
           Append(completed_uploads, CompletedUpload(transfers[id], Rfc3339(now)))
    /\ transfers' = RegistryAfterComplete(id)
    /\ last' = Ok("complete_transfer", id, Some(Metadata(transfers[id])), 0)
    /\ retired' = retired \cup {id}
    /\ attempted' = Remove(attempted, id)
    /\ lock' = None
    /\ history_lock' = HistoryLockAfterReturn(c)
    /\ calls' = [calls EXCEPT ![c] = Idle]
    /\ UNCHANGED <<now, storage, io_faults, sender>>

\* get_transfer_status: transfers.get(transfer_id).map(|t| t.metadata.clone())
StatusRun(c) ==
    /\ calls[c].op = "get_transfer_status"
    /\ calls[c].pc = "run"
    /\ GetTransferStatusCall(calls[c].transfer_id)
    /\ lock' = None
    /\ calls' = [calls EXCEPT ![c] = Idle]
    /\ UNCHANGED <<history_lock, sender>>

\* lines 308-343 of list_upload_batches
ListRun(c) ==
    /\ calls[c].op = "list_upload_batches"
    /\ calls[c].pc = "run"
    /\ ListUploadBatchesCall
    /\ history_lock' = None
    /\ calls' = [calls EXCEPT ![c] = Idle]
    /\ UNCHANGED <<lock, sender>>

\* lock().await returns to the caller c
Acquires(c) ==
    \/ InitLock(c)
    \/ AwaitLock(c)
    \/ HttpStatusLock(c)
    \/ AwaitHistoryLock(c)

\* the caller c runs on to its next await or to its return
Runs(c) ==
    \/ InitTempDir(c)
    \/ InitInsert(c)
    \/ ReceiveLookup(c)
    \/ ReceiveWrite(c)
    \/ ReceiveRecord(c)
    \/ HttpRespond(c)
    \/ CompleteReassemble(c)
    \/ CompletePush(c)
    \/ CancelRun(c)
    \/ StatusRun(c)
    \/ ListRun(c)

NextLocks ==
    \/ Tick
    \/ \E c \in Callers :
        \/ BeginCall(c)
        \/ Acquires(c)
        \/ Runs(c)

SpecLocks == InitNoIoFault /\ [][NextLocks]_vars

(***************************************************************************)
(* Clients that upload: each creates a session, posts chunks to the session *)
(* of the first millisecond and calls complete_transfer on it, within one   *)
(* millisecond.  The tokio runtime polls every task that can run, and the   *)
(* tokio Mutex hands the lock to the waiting tasks in the order in which    *)
(* they asked for it: a call that can run does, a call that waits for a     *)
(* lock that is free again and again gets it.                               *)
(***************************************************************************)
ClientSession == TransferId(0)

ClientCalls ==
    {call \in CallsMade :
        /\ call.op \in {"init_transfer", "http_receive_chunk", "complete_transfer"}
        /\ call.op # "init_transfer" => call.transfer_id = ClientSession}

BeginClientCall(c) == Begin(c, ClientCalls)

ClientAcquires(c) ==
    \/ InitLock(c)
    \/ AwaitLock(c)
    \/ HttpStatusLock(c)
    \/ AwaitHistoryLock(c)

ClientRuns(c) ==
    \/ InitTempDir(c)
    \/ InitInsert(c)
    \/ ReceiveLookup(c)
    \/ ReceiveWrite(c)
    \/ ReceiveRecord(c)
    \/ HttpRespond(c)
    \/ CompleteReassemble(c)
    \/ CompletePush(c)

NextFair ==
    \E c \in Callers :
        \/ BeginClientCall(c)
        \/ ClientAcquires(c)
        \/ ClientRuns(c)

Fairness ==
    \A c \in Callers : WF_vars(ClientRuns(c)) /\ SF_vars(ClientAcquires(c))

SpecFair == InitNoIoFault /\ [][NextFair]_vars /\ Fairness

(***************************************************************************)
(* The claims.                                                              *)
(***************************************************************************)
\* the step is a complete_transfer that completed the session id: its status
\* was set to Completed, its record was appended and it left the registry
Completes(id) ==
    /\ id \in DOMAIN transfers
    /\ last'.op = "complete_transfer" /\ last'.id = id /\ last'.res = "Ok"
    /\ completed_uploads' # completed_uploads

\* the number of distinct indices a session has a record for
ReceivedCount(t) == Cardinality(DOMAIN t.received_chunks)

\* C1: a session is completed only in a step in which the set of indices it
\* holds a record for is exactly {0 .. total_chunks-1}, whatever calls came
\* before.
CompletedOnlyWithEveryIndex ==
    [][\A id \in DOMAIN transfers :
          Completes(id) =>
              DOMAIN transfers[id].received_chunks =
                  0..(transfers[id].total_chunks - 1)]_vars

\* a two-chunk session was completed after one of its chunk writes had failed
CompletedTwoChunks ==
    /\ last.op = "complete_transfer" /\ last.res = "Ok"
    /\ last.ret[1].total_chunks = 2
    /\ io_faults = 1
    /\ Len(completed_uploads) = 1

\* C2: complete_transfer on a session of the registry that holds fewer
\* records than total_chunks fails with ChunkOutOfOrder (the code's name for
\* IncompleteTransfer), expected = total_chunks and got = the number of
\* records, and the registry, with that session's status and records, and the
\* history are as before.
IncompleteTransferRejected ==
    [][\A id \in DOMAIN transfers :
          (/\ last'.op = "complete_transfer"
           /\ ReceivedCount(transfers[id]) < transfers[id].total_chunks
           /\ CompleteTransferCall(id))
          => /\ last'.res = "ChunkOutOfOrder"
             /\ last'.expected = transfers[id].total_chunks
             /\ last'.got = ReceivedCount(transfers[id])
             /\ id \in DOMAIN transfers'
             /\ transfers'[id] = transfers[id]
             /\ completed_uploads' = completed_uploads]_vars

\* complete_transfer was refused on a session holding one chunk of two
RefusedWithOneOfTwo ==
    /\ last.op = "complete_transfer" /\ last.res = "ChunkOutOfOrder"
    /\ last.expected = 2 /\ last.got = 1
    /\ last.id \in DOMAIN transfers
    /\ transfers[last.id].status = InProgress(1)

\* the chunk files of a session put one after the other, index 0 first
RECURSIVE ConcatByIndex(_, _)
ConcatByIndex(files, n) ==
    IF n = 0 THEN <<>> ELSE ConcatByIndex(files, n - 1) \o files[n - 1]

\* C3: the file a successful complete_transfer leaves under the session's
\* filename is the concatenation, by ascending index 0..total_chunks-1, of
\* the bytes stored last for each index.
ReassembledInIndexOrder ==
    [][\A id \in DOMAIN transfers :
          Completes(id) =>
              /\ transfers[id].filename \in DOMAIN storage'
              /\ storage'[transfers[id].filename] =
                     ConcatByIndex(transfers[id].temp_dir,
                                   transfers[id].total_chunks)]_vars

\* a completed two-chunk upload whose two chunks differ
CompletedWithDistinctChunks ==
    /\ last.op = "complete_transfer" /\ last.res = "Ok"
    /\ last.ret[1].total_chunks = 2
    /\ last.ret[1].filename \in DOMAIN storage
    /\ storage[last.ret[1].filename] = <<1, 1, 0>>

\* C4: a receive_chunk that succeeds for an index the session already holds
\* makes the stored bytes and the record (hash, size) of that index those of
\* the new chunk, and leaves the received count, the status, and the record
\* and the bytes of every other index as they were.
ResendReplacesOneIndex ==
    [][\A id \in DOMAIN transfers, i \in 0..MaxIndex, data \in ChunkData :
          (/\ last'.op = "receive_chunk" /\ last'.res = "Ok"
           /\ i \in DOMAIN transfers[id].received_chunks
           /\ ReceiveChunkCall(id, i, data))
          => LET t == transfers[id]
                 u == transfers'[id]
             IN /\ u.temp_dir[i] = data
                /\ u.received_chunks[i] =
                       [index |-> i, hash |-> Sha256(data), size |-> Len(data)]
                /\ ReceivedCount(u) = ReceivedCount(t)
                /\ u.status = t.status
                /\ DOMAIN u.received_chunks = DOMAIN t.received_chunks
                /\ DOMAIN u.temp_dir = DOMAIN t.temp_dir
                /\ \A j \in DOMAIN t.received_chunks \ {i} :
                       u.received_chunks[j] = t.received_chunks[j]
                /\ \A j \in DOMAIN t.temp_dir \ {i} :
                       u.temp_dir[j] = t.temp_dir[j]]_vars

\* a chunk was accepted for an index that was held already: the count of the
\* status is the one from before the call
ChunkResent ==
    /\ last.op = "receive_chunk" /\ last.res = "Ok"
    /\ last.id \in DOMAIN transfers
    /\ last.prior = Some(InProgress(2))
    /\ transfers[last.id].status = InProgress(2)

\* C5: receive_chunk on a session of the registry with an index that is not
\* below total_chunks fails with ChunkOutOfOrder (the code's name for
\* ChunkIndexOutOfRange) and changes nothing: the registry, with the
\* session's status, records and chunk files, is as before.
OutOfRangeChunkRejected ==
    [][\A id \in DOMAIN transfers, i \in 0..MaxIndex, data \in ChunkData :
          (/\ last'.op = "receive_chunk"
           /\ i >= transfers[id].total_chunks
           /\ ReceiveChunkCall(id, i, data))
          => /\ last'.res = "ChunkOutOfOrder"
             /\ last'.expected = transfers[id].total_chunks
             /\ last'.got = i
             /\ transfers' = transfers
             /\ completed_uploads' = completed_uploads
             /\ storage' = storage]_vars

\* an index equal to total_chunks was refused on a session that is Pending
OutOfRangeOnPending ==
    /\ last.op = "receive_chunk" /\ last.res = "ChunkOutOfOrder"
    /\ last.id \in DOMAIN transfers
    /\ last.got = transfers[last.id].total_chunks
    /\ last.got > 0
    /\ transfers[last.id].status = Pending

\* C6: init_transfer with chunk_size 0 fails with the chunk-size error and
\* the registry and the history are as before; the HTTP handler answers such
\* a request 400 itself, without a call of the manager.
ZeroChunkSizeRejected ==
    [][\A r \in InitRequests :
          (r.chunk_size = 0 /\ last'.op \in {"init_transfer", "http_init_transfer"})
          =>  /\ InitTransferCall(r.filename, r.total_size, r.chunk_size,
                                  r.batch_id, 0)
                 => /\ last'.res = "chunk_size must be greater than 0"
                    /\ transfers' = transfers
                    /\ completed_uploads' = completed_uploads
              /\ HttpInitTransferCall(r.filename, r.total_size, r.chunk_size,
                                      r.batch_id)
                 => /\ last'.op = "http_init_transfer"
                    /\ last'.http = 400
                    /\ transfers' = transfers
                    /\ completed_uploads' = completed_uploads]_vars

\* the manager refused a chunk_size of 0 while a session was in the registry
ZeroChunkSizeRefused ==
    /\ last.op = "init_transfer"
    /\ last.res = "chunk_size must be greater than 0"
    /\ last.http = 0
    /\ transfers # <<>>

\* C7: no init_transfer that succeeds returns an id that an earlier one
\* returned: the id is neither in the registry, where init_transfer would
\* replace the session, nor the id of a session completed or cancelled.
SessionIdsUnique ==
    [][\A r \in InitRequests :
          (/\ last'.op = "init_transfer" /\ last'.res = "Ok"
           /\ \/ InitTransferCall(r.filename, r.total_size, r.chunk_size,
                                  r.batch_id, 0)
              \/ HttpInitTransferCall(r.filename, r.total_size, r.chunk_size,
                                      r.batch_id))
          => last'.ret[1] \notin DOMAIN transfers \cup retired]_vars

\* C8: every receive_chunk, complete_transfer and cancel_transfer on the id
\* of a session that was completed or cancelled fails with TransferNotFound
\* (the code's name for SessionNotFound), and get_transfer_status on it
\* returns nothing, whatever calls came in between.
RetiredIdStaysUnknown ==
    [][\A id \in retired :
          /\ \A i \in 0..MaxIndex, data \in ChunkData :
                 ReceiveChunkCall(id, i, data) => last'.res = "TransferNotFound"
          /\ CompleteTransferCall(id) => last'.res = "TransferNotFound"
          /\ CancelTransferCall(id) => last'.res = "TransferNotFound"
          /\ GetTransferStatusCall(id) => last'.ret = Some(None)]_vars

\* C9: a complete_transfer that fails with an I/O error leaves the session
\* in the registry with the status and the records it had, not Completed,
\* and appends nothing to the history.
FailedReassemblyKeepsSession ==
    [][\A id \in DOMAIN transfers :
          (/\ last'.op = "complete_transfer" /\ last'.res = "Io"
           /\ CompleteTransferCall(id))
          => /\ id \in DOMAIN transfers'
             /\ transfers'[id].status = transfers[id].status
             /\ transfers'[id].status.tag # "Completed"
             /\ transfers'[id].received_chunks = transfers[id].received_chunks
             /\ completed_uploads' = completed_uploads]_vars

\* complete_transfer failed after it had written a part of the destination
\* file, and the session holds its two chunks
ReassemblyFailedHalfway ==
    /\ last.op = "complete_transfer" /\ last.res = "Io"
    /\ last.id \in DOMAIN transfers
    /\ transfers[last.id].status = InProgress(2)
    /\ transfers[last.id].filename \in DOMAIN storage
    /\ Len(storage[transfers[last.id].filename]) = 1

\* C10: after a complete_transfer on an id failed with an I/O error, and with
\* no receive_chunk (and no cancel_transfer) on that id since, a
\* complete_transfer on the id that meets no I/O error succeeds, and writes
\* the file and returns the final hash the failed call was computing.
RetryAfterIoFailureSucceeds ==
    [][\A id \in DOMAIN attempted :
          (/\ last'.op = "complete_transfer" /\ last'.res # "Io"
           /\ CompleteTransferCall(id))
          => /\ last'.res = "Ok"
             /\ last'.ret[1].status = Completed(attempted[id].final_hash)
             /\ attempted[id].filename \in DOMAIN storage'
             /\ storage'[attempted[id].filename] = attempted[id].file]_vars

\* C11: cancel_transfer on an id of the registry succeeds and removes that
\* session, whatever its status and its records, and leaves the history and
\* the destination files as they were; on an id that is not in the registry
\* (a second cancel of the same id is such a call) it fails with
\* TransferNotFound (the code's name for SessionNotFound) and changes nothing.
CancelRemovesSession ==
    [][\A id \in TransferIds :
          (last'.op = "cancel_transfer" /\ CancelTransferCall(id))
          => /\ completed_uploads' = completed_uploads
             /\ storage' = storage
             /\ IF id \in DOMAIN transfers
                THEN /\ last'.res = "Ok"
                     /\ id \notin DOMAIN transfers'
                     /\ \A other \in DOMAIN transfers \ {id} :
                            /\ other \in DOMAIN transfers'
                            /\ transfers'[other] = transfers[other]
                ELSE /\ last'.res = "TransferNotFound"
                     /\ transfers' = transfers]_vars

\* a session holding one chunk of two was cancelled
CancelledInProgress ==
    /\ last.op = "cancel_transfer" /\ last.res = "Ok"
    /\ last.prior = Some(InProgress(1))
    /\ last.id \notin DOMAIN transfers
    /\ completed_uploads = <<>>

TimeOf(text) == CHOOSE ms \in Instants : Rfc3339(ms) = text

\* how often x occurs in a sequence
Count(seq, x) == Cardinality({k \in DOMAIN seq : seq[k] = x})

\* the records of the history with this batch id, as list_upload_batches
\* reports a file
FilesOf(uploads, batch_id) ==
    LET at == {k \in DOMAIN uploads : uploads[k].batch_id = batch_id}
    IN [k \in at |-> [name |-> uploads[k].name, size |-> uploads[k].size,
                      uploaded_at |-> uploads[k].uploaded_at]]

\* C14: what list_upload_batches returns has one entry for each batch id of
\* the history and no other; an entry holds the records of its batch id, each
\* as often as the history does, and nothing else, in ascending completion
\* time; its uploaded_at is the completion time of its latest file; and the
\* entries are in descending order of their uploaded_at.
BatchesGroupedAndOrdered ==
    last.op = "list_upload_batches" =>
        LET batches == last.ret[1] IN
        /\ {batches[k].batch_id : k \in DOMAIN batches} = BatchIds(completed_uploads)
        /\ Len(batches) = Cardinality(BatchIds(completed_uploads))
        /\ \A k \in DOMAIN batches :
               LET entry == batches[k]
                   records == FilesOf(completed_uploads, entry.batch_id)
               IN /\ Len(entry.files) = Cardinality(DOMAIN records)
                  /\ \A r \in DOMAIN records :
                         Count(entry.files, records[r]) =
                             Cardinality({q \in DOMAIN records :
                                             records[q] = records[r]})
                  /\ \A i, j \in DOMAIN entry.files :
                         i < j => TimeOf(entry.files[i].uploaded_at)
                                      <= TimeOf(entry.files[j].uploaded_at)
                  /\ \A i \in DOMAIN entry.files :
                         TimeOf(entry.files[i].uploaded_at)
                             <= TimeOf(entry.uploaded_at)
                  /\ \E i \in DOMAIN entry.files :
                         entry.files[i].uploaded_at = entry.uploaded_at
        /\ \A i, j \in DOMAIN batches :
               i < j => TimeOf(batches[i].uploaded_at)
                            >= TimeOf(batches[j].uploaded_at)

\* a listing of two batches: the one completed at the later instant, which
\* is the later record of the history, comes first
LaterBatchListedFirst ==
    /\ last.op = "list_upload_batches"
    /\ Len(last.ret[1]) = 2
    /\ last.ret[1][1].uploaded_at = Rfc3339(1)
    /\ last.ret[1][2].uploaded_at = Rfc3339(0)
    /\ completed_uploads[1].batch_id = last.ret[1][2].batch_id

\* C15: when a session that was given no batch id has completed, the listing
\* made next has an entry for its batch id "single_<id>" that holds that
\* upload and no other, whatever was uploaded before and under whatever
\* batch id.
SyntheticBatchIsSingle ==
    [][(/\ last.op = "complete_transfer" /\ last.res = "Ok"
        /\ last.ret[1].batch_id = None
        /\ last'.op = "list_upload_batches"
        /\ ListUploadBatchesCall)
       => \E k \in DOMAIN last'.ret[1] :
              LET entry == last'.ret[1][k]
              IN /\ entry.batch_id = "single_" \o last.ret[1].id
                 /\ Len(entry.files) = 1
                 /\ entry.files[1].name = last.ret[1].filename]_vars

\* the lengths of the chunk files 0 .. n-1 added up
RECURSIVE StoredLength(_, _)
StoredLength(files, n) ==
    IF n = 0 THEN 0 ELSE StoredLength(files, n - 1) + Len(files[n - 1])

\* C16: complete_transfer on a session that holds a record for each index
\* 0 .. total_chunks-1, whatever the order they came in and whatever their
\* lengths, succeeds unless it meets an I/O error, and the file it leaves is
\* as long as the stored chunks together (which, when no I/O error ever
\* occurred, is the sum of the sizes of the records); total_size plays no part.
FullSessionCompletes ==
    [][\A id \in DOMAIN transfers :
          (/\ last'.op = "complete_transfer" /\ last'.res # "Io"
           /\ DOMAIN transfers[id].received_chunks =
                  0..(transfers[id].total_chunks - 1)
           /\ CompleteTransferCall(id))
          => LET t == transfers[id] IN
             /\ last'.res = "Ok"
             /\ t.filename \in DOMAIN storage'
             /\ Len(storage'[t.filename]) = StoredLength(t.temp_dir, t.total_chunks)
             /\ io_faults = 0 =>
                    Len(storage'[t.filename]) = RecordedSize(t, t.total_chunks)]_vars

\* an upload declared as 2 bytes was completed with a file of 4 bytes
CompletedLongerThanDeclared ==
    /\ last.op = "complete_transfer" /\ last.res = "Ok"
    /\ last.ret[1].total_size = 2
    /\ last.ret[1].filename \in DOMAIN storage
    /\ Len(storage[last.ret[1].filename]) = 4

\* the least number of chunks of chunk_size bytes that hold total_size bytes
Ceiling(total_size, chunk_size) ==
    CHOOSE q \in 0..total_size :
        /\ q * chunk_size >= total_size
        /\ q = 0 \/ (q - 1) * chunk_size < total_size

\* C17: for every total_size and every chunk_size > 0 of the integer widths,
\* the session an init_transfer that succeeds stores has
\* total_chunks = ceil(total_size / chunk_size).
TotalChunksIsCeiling ==
    [][\A total_size \in Words, chunk_size \in Words \ {0} :
          (/\ last'.op = "init_transfer" /\ last'.res = "Ok"
           /\ transfers'[last'.ret[1]].total_size = total_size
           /\ transfers'[last'.ret[1]].chunk_size = chunk_size
           /\ InitTransferCall("a", total_size, chunk_size, None, 0))
          => transfers'[last'.ret[1]].total_chunks =
                 Ceiling(total_size, chunk_size)]_vars

\* C18 as stated: init_transfer with total_size 0 and a chunk_size > 0
\* creates a session with total_chunks = 1.
EmptyFileHasOneChunk ==
    [][\A chunk_size \in Words \ {0} :
          (/\ last'.op = "init_transfer" /\ last'.res = "Ok"
           /\ transfers'[last'.ret[1]].total_size = 0
           /\ transfers'[last'.ret[1]].chunk_size = chunk_size
           /\ InitTransferCall("a", 0, chunk_size, None, 0))
          => transfers'[last'.ret[1]].total_chunks = 1]_vars

\* C18, amended: init_transfer with total_size 0 and a chunk_size > 0
\* creates a session with total_chunks = 0, which is ceil(0 / chunk_size).
EmptyFileHasNoChunk ==
    [][\A chunk_size \in Words \ {0} :
          (/\ last'.op = "init_transfer" /\ last'.res = "Ok"
           /\ transfers'[last'.ret[1]].total_size = 0
           /\ transfers'[last'.ret[1]].chunk_size = chunk_size
           /\ InitTransferCall("a", 0, chunk_size, None, 0))
          => /\ transfers'[last'.ret[1]].total_chunks = 0
             /\ transfers'[last'.ret[1]].total_chunks = Ceiling(0, chunk_size)]_vars

\* a session for an empty file with a chunk_size of 3 is in the registry,
\* with no chunk to wait for
EmptyFileSessionCreated ==
    /\ last.op = "init_transfer" /\ last.res = "Ok"
    /\ last.ret[1] \in DOMAIN transfers
    /\ transfers[last.ret[1]].total_size = 0
    /\ transfers[last.ret[1]].chunk_size = 3
    /\ transfers[last.ret[1]].total_chunks = 0

\* C19: a complete_transfer that succeeds returns the session's metadata with
\* the status Completed{final_hash}, final_hash being the hash of the bytes
\* that are in the destination file; it is the hash of the chunk bytes put
\* together by index, so it is a function of the index-to-bytes mapping the
\* session holds and not of the order the chunks came in.
FinalHashOfWrittenBytes ==
    [][\A id \in DOMAIN transfers :
          Completes(id) =>
              LET t == transfers[id] IN
              /\ last'.ret[1] =
                     [Metadata(t) EXCEPT
                         !.status = Completed(Sha256(storage'[t.filename]))]
              /\ last'.ret[1].status.final_hash =
                     Sha256(ConcatByIndex(t.temp_dir, t.total_chunks))]_vars

\* a completed upload of the chunks <<0>>, <<1, 1>> returned the hash of the
\* three bytes of the file
ReturnedHashOfFile ==
    /\ last.op = "complete_transfer" /\ last.res = "Ok"
    /\ last.ret[1].status = Completed(Sha256(<<0, 1, 1>>))
    /\ storage[last.ret[1].filename] = <<0, 1, 1>>

\* C20: in every state, every session of the registry is Pending exactly
\* when it holds no chunk record and is otherwise InProgress{n} with n the
\* number of indices it holds a record for; n is at most total_chunks and
\* every index recorded is below total_chunks.
StatusMatchesRecords ==
    \A id \in DOMAIN transfers :
        LET t == transfers[id]
            held == DOMAIN t.received_chunks
        IN /\ t.status = Pending <=> held = {}
           /\ held # {} => t.status = InProgress(Cardinality(held))
           /\ Cardinality(held) <= t.total_chunks
           /\ \A i \in held : 0 <= i /\ i < t.total_chunks

\* a session of two chunks holds the second one only, after a write of the
\* first one failed halfway
HoldsSecondIndexOnly ==
    \E id \in DOMAIN transfers :
        /\ transfers[id].total_chunks = 2
        /\ DOMAIN transfers[id].received_chunks = {1}
        /\ DOMAIN transfers[id].temp_dir = {0, 1}
        /\ transfers[id].status = InProgress(1)

\* C21: get_transfer_status called right after an init_transfer that
\* succeeded, on the id it returned, returns a snapshot that is Pending and
\* carries the filename, total_size, chunk_size and batch_id of the request,
\* and the session has no chunk record; every get_transfer_status leaves the
\* registry, with every session, and the history as they are, and returns
\* nothing for an id that is not in the registry.
StatusIsReadOnlySnapshot ==
    [][/\ \A r \in InitRequests :
              (/\ last'.op = "init_transfer" /\ last'.res = "Ok"
               /\ InitTransferCall(r.filename, r.total_size, r.chunk_size,
                                   r.batch_id, 0))
              => LET id == last'.ret[1] IN
                 /\ id \in DOMAIN transfers'
                 /\ transfers'[id].received_chunks = <<>>
                 /\ Metadata(transfers'[id]) =
                        [id |-> id, filename |-> r.filename,
                         total_size |-> r.total_size, chunk_size |-> r.chunk_size,
                         total_chunks |-> transfers'[id].total_chunks,
                         batch_id |-> r.batch_id, status |-> Pending]
       /\ \A id \in TransferIds :
              (last'.op = "get_transfer_status" /\ GetTransferStatusCall(id))
              => /\ transfers' = transfers
                 /\ completed_uploads' = completed_uploads
                 /\ storage' = storage
                 /\ IF id \in DOMAIN transfers
                    THEN last'.ret = Some(Some(Metadata(transfers[id])))
                    ELSE last'.ret = Some(None)
                 /\ (last.op = "init_transfer" /\ last.res = "Ok"
                     /\ last.ret[1] = id)
                    => /\ last'.ret[1] # None
                       /\ last'.ret[1][1].status = Pending]_vars

\* the snapshot of a session of batch B1 that has received nothing
PendingSnapshotReturned ==
    /\ last.op = "get_transfer_status"
    /\ last.ret[1] # None
    /\ last.ret[1][1].status = Pending
    /\ last.ret[1][1].batch_id = Some("B1")
    /\ last.ret[1][1].total_size = 1
    /\ transfers[last.id].received_chunks = <<>>

\* C22: a call that is not made on the id of a session, an init_transfer
\* among them, leaves that session in the registry with its metadata, status
\* and chunk records as they are; a session leaves the registry only in a
\* complete_transfer or a cancel_transfer on its id that succeeds.
SessionKeptByOtherCalls ==
    [][\A id \in DOMAIN transfers :
          /\ last'.id # id =>
                 /\ id \in DOMAIN transfers'
                 /\ transfers'[id] = transfers[id]
          /\ id \notin DOMAIN transfers' =>
                 /\ last'.op \in {"complete_transfer", "cancel_transfer"}
                 /\ last'.id = id /\ last'.res = "Ok"]_vars

\* the names of the files of the uploads that have completed
CompletedNames == {completed_uploads[k].name : k \in DOMAIN completed_uploads}

\* C23: a receive_chunk, complete_transfer or cancel_transfer that returns
\* an error leaves every session other than the one it was called on, the
\* history, and the stored file of every upload that has completed, one of
\* the same filename included, as they are.
FailureTouchesOnlyItsSession ==
    [][(/\ last'.op \in {"receive_chunk", "complete_transfer", "cancel_transfer"}
        /\ last'.res # "Ok")
       => /\ \A other \in DOMAIN transfers \ {last'.id} :
                 /\ other \in DOMAIN transfers'
                 /\ transfers'[other] = transfers[other]
          /\ completed_uploads' = completed_uploads
          /\ \A name \in CompletedNames :
                 /\ name \in DOMAIN storage'
                 /\ storage'[name] = storage[name]]_vars

\* C26: in every state, no session of the registry has the status Failed.
NoSessionIsFailed ==
    \A id \in DOMAIN transfers : transfers[id].status.tag # "Failed"

\* complete_transfer could not create the destination file, and the session
\* is in the registry as it was, InProgress
InProgressAfterCreateFailed ==
    /\ last.op = "complete_transfer" /\ last.res = "Io"
    /\ last.id \in DOMAIN transfers
    /\ transfers[last.id].status = InProgress(1)
    /\ transfers[last.id].filename \notin DOMAIN storage

\* C27: when a session completes whose filename is that of an upload that
\* has completed before, the file of that name holds the bytes of the session
\* completing now, and the history keeps the earlier records and gains one
\* for this session.
SameNameOverwrites ==
    [][\A id \in DOMAIN transfers :
          (Completes(id) /\ transfers[id].filename \in CompletedNames)
          => LET t == transfers[id] IN
             /\ storage'[t.filename] = ConcatByIndex(t.temp_dir, t.total_chunks)
             /\ Len(completed_uploads') = Len(completed_uploads) + 1
             /\ SubSeq(completed_uploads', 1, Len(completed_uploads)) =
                    completed_uploads
             /\ completed_uploads'[Len(completed_uploads')].name = t.filename
             /\ \A name \in DOMAIN storage \ {t.filename} :
                    storage'[name] = storage[name]]_vars

\* two uploads named "a" have completed, the second with the chunk <<1, 1>>,
\* which is what the file holds
SecondUploadStored ==
    /\ last.op = "complete_transfer" /\ last.res = "Ok"
    /\ Len(completed_uploads) = 2
    /\ completed_uploads[1].name = "a" /\ completed_uploads[2].name = "a"
    /\ last.ret[1].status = Completed(Sha256(<<1, 1>>))
    /\ storage["a"] = <<1, 1>>

\* C29: in every state, each index a session holds a record for has a chunk
\* file in the session's scratch directory whose bytes have the hash and the
\* length of the record.
RecordsMatchChunkFiles ==
    \A id \in DOMAIN transfers :
        \A i \in DOMAIN transfers[id].received_chunks :
            /\ i \in DOMAIN transfers[id].temp_dir
            /\ transfers[id].received_chunks[i].hash =
                   Sha256(transfers[id].temp_dir[i])
            /\ transfers[id].received_chunks[i].size =
                   Len(transfers[id].temp_dir[i])

\* C30: a receive_chunk that fails with an I/O error on an index the session
\* holds no record for leaves the records, the count and the status as they
\* were; every index with a record has a chunk file, so a complete_transfer
\* that passes the count check finds a chunk file for every index.
RecordOnlyAfterWrite ==
    [][/\ \A id \in DOMAIN transfers, i \in 0..MaxIndex, data \in ChunkData :
              (/\ last'.op = "receive_chunk" /\ last'.res = "Io"
               /\ i \notin DOMAIN transfers[id].received_chunks
               /\ ReceiveChunkCall(id, i, data))
              => /\ transfers'[id].received_chunks = transfers[id].received_chunks
                 /\ transfers'[id].status = transfers[id].status
       /\ \A id \in DOMAIN transfers :
              DOMAIN transfers[id].received_chunks \subseteq
                  DOMAIN transfers[id].temp_dir
       /\ \A id \in DOMAIN transfers :
              (/\ last'.op = "complete_transfer"
               /\ last'.res \notin {"TransferNotFound", "ChunkOutOfOrder"}
               /\ CompleteTransferCall(id))
              => \A i \in 0..(transfers[id].total_chunks - 1) :
                     i \in DOMAIN transfers[id].temp_dir]_vars

\* a write of index 0 failed on a session that has no record: the chunk
\* file is there, the session is Pending as before
FailedWriteLeftPending ==
    /\ last.op = "receive_chunk" /\ last.res = "Io"
    /\ last.id \in DOMAIN transfers
    /\ transfers[last.id].status = Pending
    /\ transfers[last.id].received_chunks = <<>>
    /\ 0 \in DOMAIN transfers[last.id].temp_dir

\* the steps of a call that are made with the guard of `transfers` alive
Guarded == {"insert", "lookup", "write", "record", "status", "run"}

\* C24 as stated: every step of init_transfer, receive_chunk,
\* complete_transfer and cancel_transfer that reads or writes session state,
\* scratch storage or the destination file is taken by the caller that holds
\* the registry lock, the creation of the scratch directory by init_transfer
\* included.
EveryTouchingStepLocked ==
    \A c \in Callers :
        calls[c].pc \in Guarded \cup {"tempdir"} => lock = Some(c)

\* C24: every step of receive_chunk, complete_transfer and cancel_transfer,
\* and the insertion into the registry by init_transfer, is taken by the
\* caller that holds the registry lock; no two callers are at such a step
\* at once, and a caller that writes a chunk file never does so while
\* another writes a chunk file or reassembles.  (init_transfer creates the
\* scratch directory before it takes the lock.)
RegistryStepsLocked ==
    /\ \A c \in Callers : calls[c].pc \in Guarded => lock = Some(c)
    /\ \A c, d \in Callers :
           (c # d /\ calls[c].pc \in Guarded) => calls[d].pc \notin Guarded
    /\ \A c, d \in Callers :
           (c # d /\ calls[c].pc = "write")
           => ~(\/ calls[d].pc \in {"write", "record"}
                \/ calls[d].op = "complete_transfer")

\* a caller writes a chunk file with the lock while the other creates the
\* scratch directory of a new session
ChunkWriteDuringCreate ==
    \E c, d \in Callers :
        /\ calls[c].pc = "write" /\ lock = Some(c)
        /\ calls[c].transfer_id \in DOMAIN transfers
        /\ calls[d].pc = "tempdir"

\* the caller c has written its chunk file and now inserts the record
Records(c) ==
    /\ calls[c].op = "http_receive_chunk"
    /\ calls[c].pc = "record"
    /\ calls'[c].pc = "status_lock"

\* a receive_chunk on the session id is between its lookup and its return
Receiving(id) ==
    \E c \in Callers :
        /\ calls[c].op = "http_receive_chunk"
        /\ calls[c].pc \in {"lookup", "write", "record"}
        /\ calls[c].transfer_id = id

ChunkResponseCountsRecorded ==
    [][\A c \in Callers :
           (/\ calls[c].op = "http_receive_chunk"
            /\ calls[c].pc = "status"
            /\ calls'[c] = Idle)
           => /\ last'.http = 200
              /\ last'.ret[1].received_count = calls[c].recorded]_vars

\* C31: the scratch directory of a session is owned by its entry of the
\* registry: a session leaves the registry, and its scratch directory is
\* released with it, only in a complete_transfer that succeeds or a
\* cancel_transfer on its id, and both always remove it; a complete_transfer
\* that fails leaves the session in the registry with every chunk file.
ScratchLivesWithSession ==
    [][\A id \in DOMAIN transfers :
           /\ id \notin DOMAIN transfers'
              => /\ last'.id = id /\ last'.res = "Ok"
                 /\ last'.op \in {"complete_transfer", "cancel_transfer"}
           /\ (/\ last'.op \in {"complete_transfer", "cancel_transfer"}
               /\ last'.id = id /\ last'.res = "Ok")
              => id \notin DOMAIN transfers'
           /\ (/\ last'.op = "complete_transfer" /\ last'.id = id
               /\ last'.res # "Ok")
              => /\ id \in DOMAIN transfers'
                 /\ transfers'[id].temp_dir = transfers[id].temp_dir]_vars

\* a complete_transfer has failed on I/O and the session still has the two
\* chunk files it had
ScratchKeptAfterFailure ==
    /\ last.op = "complete_transfer" /\ last.res = "Io"
    /\ last.id \in DOMAIN transfers
    /\ DOMAIN transfers[last.id].temp_dir = {0, 1}

\* C33: from one state to the next, a session that stays in the registry
\* holds records for at least as many indices as before, and its status
\* does not go from InProgress to Pending.
CountNeverDecreases ==
    [][\A id \in DOMAIN transfers \cap DOMAIN transfers' :
           /\ ReceivedCount(transfers'[id]) >= ReceivedCount(transfers[id])
           /\ transfers[id].status.tag = "InProgress"
              => transfers'[id].status.tag # "Pending"]_vars

\* C34: a session that is InProgress has total_chunks > 0, so get_status
\* never divides by zero; the progress it reports for such a session is the
\* number n of 0..100 with n <= received_chunks * 100 / total_chunks < n + 1,
\* followed by "%".
ProgressIsPercentage ==
    /\ \A id \in DOMAIN transfers :
           transfers[id].status.tag = "InProgress" => transfers[id].total_chunks > 0
    /\ last.op = "http_get_status" => last.res # "panic"
    /\ (/\ last.op = "http_get_status" /\ last.res = "Ok"
        /\ last.ret[1].status = "in_progress")
       => LET t == transfers[last.id]
              received_chunks == t.status.received_chunks
          IN \E n \in 0..100 :
                 /\ n * t.total_chunks <= received_chunks * 100
                 /\ received_chunks * 100 < (n + 1) * t.total_chunks
                 /\ last.ret[1].progress = Decimal(n) \o <<"%">>

\* get_status has answered 50% for a session that holds one chunk of two
HalfReceivedReported ==
    /\ last.op = "http_get_status" /\ last.res = "Ok"
    /\ last.ret[1].status = "in_progress"
    /\ last.ret[1].progress = <<"5", "0", "%">>
    /\ \E id \in DOMAIN transfers :
           transfers[id].total_size = 0 /\ transfers[id].status = Pending

\* C35: a session with total_chunks = 0 is Pending; every receive_chunk on
\* it, whatever the index and the bytes, returns ChunkOutOfOrder with
\* expected 0 and changes nothing; a complete_transfer on it succeeds,
\* leaves an empty file under its filename, appends one record of size
\* total_size to the history and removes the session.
EmptySessionCompletesAtOnce ==
    [][\A id \in DOMAIN transfers :
           transfers[id].total_chunks = 0 =>
               /\ transfers[id].status = Pending
               /\ \A i \in 0..MaxIndex, data \in ChunkData :
                      (/\ last'.op = "receive_chunk" /\ last'.id = id
                       /\ ReceiveChunkCall(id, i, data))
                      => /\ last'.res = "ChunkOutOfOrder"
                         /\ last'.expected = 0 /\ last'.got = i
                         /\ transfers' = transfers
               /\ (/\ last'.op = "complete_transfer" /\ last'.id = id
                   /\ CompleteTransferBounded(id, MaxHistory))
                  => /\ last'.res = "Ok"
                     /\ storage' = Insert(storage, transfers[id].filename, <<>>)
                     /\ Len(completed_uploads') = Len(completed_uploads) + 1
                     /\ SubSeq(completed_uploads', 1, Len(completed_uploads)) =
                            completed_uploads
                     /\ completed_uploads'[Len(completed_uploads')].name =
                            transfers[id].filename
                     /\ completed_uploads'[Len(completed_uploads')].size =
                            transfers[id].total_size
                     /\ id \notin DOMAIN transfers']_vars

\* a session that expected no chunk has been completed: its file is empty
EmptyUploadCompleted ==
    /\ last.op = "complete_transfer" /\ last.res = "Ok"
    /\ last.ret[1].total_chunks = 0
    /\ last.ret[1].filename \in DOMAIN storage
    /\ storage[last.ret[1].filename] = <<>>
    /\ Len(completed_uploads) = 1

\* the i-th slice of chunk_size bytes of the file of send_files
SliceOf(file, chunk_size, i) ==
    SubSeq(file, i * chunk_size + 1,
           IF (i + 1) * chunk_size < Len(file) THEN (i + 1) * chunk_size
           ELSE Len(file))

\* C38: send_files posts under chunk index i the i-th slice of chunk_size
\* bytes of the file, also after the service refused a chunk; and when it
\* ends with every chunk it posted accepted and the completion accepted, the
\* stored file is the file.
SentUnderItsIndex ==
    /\ sender.pc # "none" =>
           \A k \in DOMAIN sender.sent :
               /\ sender.sent[k].offset = sender.sent[k].index * sender.chunk_size
               /\ sender.sent[k].data =
                      SliceOf(sender.file, sender.chunk_size, sender.sent[k].index)
    /\ (/\ sender.pc = "done" /\ sender.success
        /\ \A k \in DOMAIN sender.sent : sender.sent[k].accepted)
       => storage["a"] = sender.file

\* the caller c has called complete_transfer on the session of the client,
\* which holds every chunk and is not yet completed
CompletionAsked(c) ==
    /\ calls[c].op = "complete_transfer" /\ calls[c].pc = "lock"
    /\ calls[c].transfer_id = ClientSession
    /\ ClientSession \in DOMAIN transfers
    /\ AllChunksReceived(transfers[ClientSession])
    /\ transfers[ClientSession].status.tag = "InProgress"

\* the call of c has returned and the session has left the registry, its
\* record in the history
CompletionDone(c) ==
    /\ calls[c] = Idle
    /\ ClientSession \notin DOMAIN transfers
    /\ \E k \in DOMAIN completed_uploads :
           completed_uploads[k].batch_id = "single_" \o ClientSession

\* C37: with the scheduler and the Mutex fair, the file system not failing
\* and no cancel_transfer, a complete_transfer called on a session that was
\* sent every chunk returns, and the session leaves the registry with its
\* record in the history, whatever the other clients do meanwhile.
UploadEventuallyCompletes ==
    \A c \in Callers : CompletionAsked(c) ~> CompletionDone(c)

\* C32: the snapshot a get_transfer_status returns is never Completed: it is
\* Pending or InProgress, or there is none, also when the call was made
\* while a complete_transfer on the same session was under way.
StatusNeverCompleted ==
    (last.op = "get_transfer_status" /\ last.ret[1] # None)
    => last.ret[1][1].status.tag \in {"Pending", "InProgress"}

\* a get_transfer_status waits for the lock while the session it asks for is
\* in the registry with the status Completed, its record not yet pushed
StatusAskedDuringCompletion ==
    \E c, d \in Callers :
        /\ calls[c].op = "get_transfer_status" /\ calls[c].pc = "lock"
        /\ calls[d].op = "complete_transfer" /\ calls[d].pc = "history_lock"
        /\ calls[c].transfer_id = calls[d].transfer_id
        /\ calls[c].transfer_id \in DOMAIN transfers
        /\ transfers[calls[c].transfer_id].status.tag = "Completed"

\* some call is under way
CallUnderWay == \E c \in Callers : calls[c] # Idle

\* the call of c is under way and not at a lock().await: it runs on
Running(c) ==
    calls[c] # Idle /\ calls[c].pc \notin {"lock", "status_lock", "history_lock"}

\* C36: the lock of the history is held either by a list_upload_batches that
\* holds nothing else, or by a complete_transfer that holds the lock of the
\* registry; no caller that holds it waits for the lock of the registry; and
\* whenever a call is under way, some caller runs or can be given the lock it
\* waits for.
NoDeadlock ==
    /\ \A c \in Callers :
           history_lock = Some(c) =>
               \/ calls[c].op = "list_upload_batches" /\ lock # Some(c)
               \/ calls[c].op = "complete_transfer" /\ lock = Some(c)
    /\ \A c \in Callers :
           history_lock = Some(c) => calls[c].pc \notin {"lock", "status_lock"}
    /\ CallUnderWay => \/ \E c \in Callers : Running(c)
                       \/ ENABLED (\E c \in Callers : Acquires(c))

\* a complete_transfer holds the lock of the registry and waits for the lock
\* of the history, which a list_upload_batches holds
CompleteWaitsForList ==
    \E c, d \in Callers :
        /\ calls[c].op = "complete_transfer" /\ calls[c].pc = "history_lock"
        /\ lock = Some(c)
        /\ calls[d].op = "list_upload_batches" /\ history_lock = Some(d)
====
